---------------------------- MODULE Spec2Model ----------------------------
(***************************************************************************)
(* Model of the Linear -> Slack -> Claude dispatcher (src/src/index.ts)    *)
(* and of the workflow script scripts/fetch-task.js.                       *)
(*                                                                         *)
(* Strings whose content the code inspects (environment values, team keys, *)
(* project ids, workflow-state names) are sequences of one-character       *)
(* strings.  null / undefined is the record-free value Null below.         *)
(***************************************************************************)
EXTENDS Integers, Sequences, FiniteSets, TLC

VARIABLES
    env,        \* process.env: the six settings, each defined or not
    issues,     \* tracker: the issues, in the order the tracker returns them
    teamStates, \* tracker: team key -> the team's workflow states
    pc,         \* position of the dispatch run
    task,       \* the LinearIssue selected by the run (NoTask before/without)
    target,     \* inProgressState found by markIssueAsDispatched (NoState if none)
    calls,      \* API calls made by the current run, in order
    posted,     \* issue id -> number of successful chat posts (all runs)
    runs,       \* number of runs started
    exitCode,   \* exit status of the current run (-1 while running)
    error,      \* message of the error thrown by validateConfig (<<>> if none)
    nodes,      \* issues.nodes of the last tracker response
    outputs,    \* fetch-task.js: the GITHUB_OUTPUT pairs written
    spc,        \* position of the fetch-task.js run
    message,    \* the message composed by formatSlackMessage (<<>> before)
    prev,       \* the previous run: the id of its task (0 if none), whether it failed
    workflowEnv, \* fetch-task.js addComment: ISSUE_ID (0 if unset) and WORKFLOW_URL
    apc         \* position of the addComment run

vars == <<env, issues, teamStates, pc, task, target, calls, posted, runs,
          exitCode, error, nodes, outputs, spc, message, prev, workflowEnv, apc>>

-----------------------------------------------------------------------------
(* Bounds of the model *)

\* number of dispatch runs explored one after the other
MaxRuns == 2

\* number of freely chosen issues in the tracker
NIssues == 2

\* how far below and above maxDescLength the explored descriptions reach
MaxOver == 2

\* number of issues of the largest tracker of the selection-only specification
MaxNodes == 3

(* Program constants *)

\* first: 50
PageSize == 50

\* const maxDescLength = 2000
maxDescLength == 2000

-----------------------------------------------------------------------------
(* Strings *)

\* null / undefined / an unset environment variable
Null == <<"\\0">>

RECURSIVE Split(_, _)
\* String.prototype.split(sep) for a one-character separator: the pieces
\* between separators, empty pieces included ("" splits to [""]).
Split(s, sep) ==
    IF \A i \in 1..Len(s) : s[i] # sep
    THEN <<s>>
    ELSE LET k == CHOOSE i \in 1..Len(s) :
                      s[i] = sep /\ \A j \in 1..(i-1) : s[j] # sep
         IN  <<SubSeq(s, 1, k-1)>> \o Split(SubSeq(s, k+1, Len(s)), sep)

\* Array.prototype.filter(Boolean) on strings: drops the empty ones
FilterBoolean(xs) == SelectSeq(xs, LAMBDA x : x # <<>>)

RECURSIVE Join(_, _)
\* Array.prototype.join(sep) on an array of tokens, as a token sequence
Join(xs, sep) ==
    IF xs = <<>> THEN <<>>
    ELSE IF Len(xs) = 1 THEN <<xs[1]>>
    ELSE <<xs[1], sep>> \o Join(Tail(xs), sep)

\* elements of a sequence
Range(s) == { s[i] : i \in 1..Len(s) }

\* String.prototype.includes
Includes(s, sub) ==
    \E i \in 0..(Len(s) - Len(sub)) : SubSeq(s, i+1, i+Len(sub)) = sub

Upper == <<"A","B","C","D","E","F","G","H","I","J","K","L","M",
           "N","O","P","Q","R","S","T","U","V","W","X","Y","Z">>
Lower == <<"a","b","c","d","e","f","g","h","i","j","k","l","m",
           "n","o","p","q","r","s","t","u","v","w","x","y","z">>

\* String.prototype.toLowerCase
ToLowerCase(s) ==
    [ i \in 1..Len(s) |->
        IF \E k \in 1..Len(Upper) : Upper[k] = s[i]
        THEN Lower[CHOOSE k \in 1..Len(Upper) : Upper[k] = s[i]]
        ELSE s[i] ]

-----------------------------------------------------------------------------
(* Configuration *)

Required == <<"LINEAR_API_KEY", "SLACK_USER_TOKEN", "SLACK_CHANNEL_ID", "CLAUDE_USER_ID">>

OptionalLists == {"LINEAR_PROJECT_IDS", "LINEAR_TEAM_KEYS"}

EnvKeys == Range(Required) \cup OptionalLists

\* process.env.X || ""
OrEmpty(v) == IF v = Null THEN <<>> ELSE v

\* process.env.X?.split(",").filter(Boolean) || []
ParseList(v) == IF v = Null THEN <<>> ELSE FilterBoolean(Split(v, ","))

CONFIG ==
    [ LINEAR_API_KEY     |-> OrEmpty(env["LINEAR_API_KEY"]),
      SLACK_USER_TOKEN   |-> OrEmpty(env["SLACK_USER_TOKEN"]),
      SLACK_CHANNEL_ID   |-> OrEmpty(env["SLACK_CHANNEL_ID"]),
      CLAUDE_USER_ID     |-> OrEmpty(env["CLAUDE_USER_ID"]),
      LINEAR_PROJECT_IDS |-> ParseList(env["LINEAR_PROJECT_IDS"]),
      LINEAR_TEAM_KEYS   |-> ParseList(env["LINEAR_TEAM_KEYS"]) ]

\* the mutant reports only the first missing key
MissingFirstOnly ==
    LET all == SelectSeq(Required, LAMBDA key : CONFIG[key] = <<>>)
    IN  IF all = <<>> THEN <<>> ELSE <<all[1]>>

\* required.filter((key) => !CONFIG[key])
Missing == SelectSeq(Required, LAMBDA key : CONFIG[key] = <<>>)

\* `Missing required environment variables: ${missing.join(", ")}`
MissingMessage == <<"Missing required environment variables: ">> \o Join(Missing, ", ")

-----------------------------------------------------------------------------
(* Tracker data *)

\* a workflow state of a team: id, name, category
WfState(id, name, type) == [ id |-> id, name |-> name, type |-> type ]

sTodo       == WfState(1, <<"T","o","d","o">>, "unstarted")
sDoing      == WfState(2, <<"D","o","i","n","g">>, "started")
sInProgress == WfState(3, <<"I","n"," ","P","r","o","g","r","e","s","s">>, "started")
sDone       == WfState(4, <<"D","o","n","e">>, "completed")
sBacklog    == WfState(5, <<"B","a","c","k","l","o","g">>, "backlog")
sProgressQ  == WfState(6, <<"P","r","o","g","r","e","s","s","?">>, "unstarted")
sShipped    == WfState(7, <<"S","h","i","p","p","e","d">>, "completed")
sInProgCaps == WfState(8, <<"I","N"," ","P","R","O","G","R","E","S","S">>, "started")

\* the team keys and the project id of the model's issues
TeamE == <<"E">>
TeamO == <<"O">>
ProjP == <<"p">>

\* states of an issue that belongs to no team
DefaultStates == <<sTodo, sDone>>

\* the assignments of workflows to teams the model starts from
WorkflowChoices ==
    { (TeamE :> <<sTodo, sDoing, sInProgress, sDone>>) @@ (TeamO :> <<sBacklog, sShipped>>),
      (TeamE :> <<sProgressQ, sDoing, sDone>>) @@ (TeamO :> <<sBacklog, sInProgCaps, sShipped>>) }

\* the mutant words the comment differently
DispatchBodyReworded == <<"[robot]", "Task", "sent", "to", "Claude", "via", "Slack">>

\* the dispatch comment, "<robot emoji> Task dispatched to Claude via Slack",
\* as words
DispatchBody == <<"[robot]", "Task", "dispatched", "to", "Claude", "via", "Slack">>

\* the marker the README's duplicate check looks for,
\* "<robot emoji> Task dispatched to Claude"
DispatchMarker == <<"[robot]", "Task", "dispatched", "to", "Claude">>

\* an issue of the tracker; the text fields no query reads are the same for
\* every issue (no description), and a project is named by its id
MkIssue(id, assigned, st, priority, project, team) ==
    [ id |-> id, assigned |-> assigned, state |-> st, priority |-> priority,
      project |-> project, team |-> team, comments |-> <<>>,
      identifier |-> <<"X">>, title |-> <<"t">>, description |-> Null,
      url |-> <<"u">>, branchName |-> <<"b">> ]

\* the states an issue of team t can be in
StatesOf(ws, t) == IF t = Null THEN Range(DefaultStates) ELSE Range(ws[t])

\* the issues with the given id whose fields are drawn from the given sets;
\* scopeS holds the <<project, team>> pairs
IssueDomain(id, ws, assignedS, typeS, prioS, scopeS) ==
    UNION { { MkIssue(id, a, st, p, sc[1], sc[2]) :
                a \in assignedS, p \in prioS,
                st \in { x \in StatesOf(ws, sc[2]) : x.type \in typeS } }
            : sc \in scopeS }

\* k issues no run of the model changes, ahead of the others in tracker order:
\* unassigned, unstarted, priority 3, no project, team E
Filler(k) == [ i \in 1..k |-> MkIssue(100 + i, FALSE, sTodo, 3, Null, TeamE) ]

\* position of the issue with the given id
IndexOf(id) == CHOOSE i \in 1..Len(issues) : issues[i].id = id

IssueById(id) == issues[IndexOf(id)]

-----------------------------------------------------------------------------
(* getHighestPriorityTask *)

\* the mutant asks for the not yet started categories only
BuildFilterNoStarted(projectIds, teamKeys) ==
    [ stateTypeIn  |-> {"backlog", "unstarted"},
      assigneeNull |-> TRUE,
      priorityNeq  |-> 0,
      projectIdIn  |-> IF Len(projectIds) > 0 THEN projectIds ELSE Null,
      teamKeyIn    |-> IF Len(teamKeys) > 0 THEN teamKeys ELSE Null ]

\* the mutant leaves the priority clause out
BuildFilterAnyPriority(projectIds, teamKeys) ==
    [ stateTypeIn  |-> {"backlog", "unstarted", "started"},
      assigneeNull |-> TRUE,
      priorityNeq  |-> -1,
      projectIdIn  |-> IF Len(projectIds) > 0 THEN projectIds ELSE Null,
      teamKeyIn    |-> IF Len(teamKeys) > 0 THEN teamKeys ELSE Null ]

\* the mutant leaves the assignee clause out
BuildFilterAnyAssignee(projectIds, teamKeys) ==
    [ stateTypeIn  |-> {"backlog", "unstarted", "started"},
      assigneeNull |-> FALSE,
      priorityNeq  |-> 0,
      projectIdIn  |-> IF Len(projectIds) > 0 THEN projectIds ELSE Null,
      teamKeyIn    |-> IF Len(teamKeys) > 0 THEN teamKeys ELSE Null ]

\* the query filter built from the allow-lists (absent clause = Null)
BuildFilter(projectIds, teamKeys) ==
    [ stateTypeIn  |-> {"backlog", "unstarted", "started"},
      assigneeNull |-> TRUE,
      priorityNeq  |-> 0,
      projectIdIn  |-> IF Len(projectIds) > 0 THEN projectIds ELSE Null,
      teamKeyIn    |-> IF Len(teamKeys) > 0 THEN teamKeys ELSE Null ]

\* the tracker's evaluation of a filter on an issue
Matches(i, f) ==
    /\ i.state.type \in f.stateTypeIn
    /\ (f.assigneeNull => ~i.assigned)
    /\ i.priority # f.priorityNeq
    /\ (f.projectIdIn # Null => i.project \in Range(f.projectIdIn))
    /\ (f.teamKeyIn # Null => i.team \in Range(f.teamKeyIn))

\* linearClient.issues({ filter, first }): the first `first` matching issues
IssuesQuery(f, first) ==
    LET m == SelectSeq(issues, LAMBDA i : Matches(i, f))
    IN  SubSeq(m, 1, IF Len(m) < first THEN Len(m) ELSE first)

\* the mutant compares the other way round
ByPriorityReversed(a, b) == b.priority - a.priority

\* (a, b) => a.priority - b.priority
ByPriority(a, b) == a.priority - b.priority

RECURSIVE InsertSortedUnstable(_, _)
\* the mutant puts x before the elements that compare equal to it
InsertSortedUnstable(s, x) ==
    IF s = <<>> THEN <<x>>
    ELSE IF ByPriority(s[1], x) >= 0 THEN <<x>> \o s
    ELSE <<s[1]>> \o InsertSortedUnstable(Tail(s), x)

RECURSIVE InsertSorted(_, _)
\* x put into the sorted s after every element that does not compare greater
InsertSorted(s, x) ==
    IF s = <<>> THEN <<x>>
    ELSE IF ByPriority(s[1], x) > 0 THEN <<x>> \o s
    ELSE <<s[1]>> \o InsertSorted(Tail(s), x)

RECURSIVE SortFrom(_, _)
SortFrom(done, rest) ==
    IF rest = <<>> THEN done ELSE SortFrom(InsertSorted(done, rest[1]), Tail(rest))

\* [...issues.nodes].sort(comparator): Array.prototype.sort is stable
SortIssues(ns) == SortFrom(<<>>, ns)

\* the value of task before a run has selected (and when it selects nothing)
NoTask ==
    [ id |-> 0, identifier |-> <<>>, title |-> <<>>, description |-> Null,
      priority |-> 0, url |-> <<>>, branchName |-> <<>>,
      project |-> Null, team |-> Null ]

\* sortedIssues[0] as the LinearIssue returned
TopIssue(ns) ==
    LET top == SortIssues(ns)[1]
    IN  [ id |-> top.id, identifier |-> top.identifier, title |-> top.title,
          description |-> top.description, priority |-> top.priority,
          url |-> top.url, branchName |-> top.branchName,
          project |-> top.project, team |-> top.team ]

\* the filter of index.ts, from CONFIG
IndexFilter == BuildFilter(CONFIG.LINEAR_PROJECT_IDS, CONFIG.LINEAR_TEAM_KEYS)

\* the mutant leaves the team allow-list out of the script's filter
ScriptFilterNoTeams == BuildFilter(ParseList(env["LINEAR_PROJECT_IDS"]), <<>>)

\* the filter of fetch-task.js, from its own reading of the environment
ScriptFilter ==
    BuildFilter(ParseList(env["LINEAR_PROJECT_IDS"]), ParseList(env["LINEAR_TEAM_KEYS"]))

\* lines 72-80 and 84-94 on a tracker response: null for an empty one, else
\* the LinearIssue built from the top issue (returned once the awaits of
\* lines 81-82 have succeeded)
Selection(ns) == IF Len(ns) = 0 THEN NoTask ELSE TopIssue(ns)

\* fetch-task.js lines 30-47 on a tracker response: the outputs appended
ScriptOutputs(ns) ==
    IF Len(ns) = 0
    THEN [ has_task |-> "false", task_id |-> 0 ]
    ELSE [ has_task |-> "true", task_id |-> SortIssues(ns)[1].id ]

\* nothing written to GITHUB_OUTPUT yet
NoOutputs == [ has_task |-> "", task_id |-> 0 ]

-----------------------------------------------------------------------------
(* formatSlackMessage *)

\* the mutant cuts a description already at the maximum length
DescriptionPartCutsAtMax(description) ==
    IF description = Null \/ description = <<>> THEN <<>>
    ELSE <<"\n","\n">> \o
         (IF Len(description) >= maxDescLength
          THEN SubSeq(description, 1, maxDescLength) \o <<".",".",".">>
          ELSE description)

\* lines 106-114: what the description adds to the message
DescriptionPart(description) ==
    IF description = Null \/ description = <<>> THEN <<>>
    ELSE <<"\n","\n">> \o
         (IF Len(description) > maxDescLength
          THEN SubSeq(description, 1, maxDescLength) \o <<".",".",".">>
          ELSE description)

\* lines 116-117: the branch naming instruction
BranchPart(branchName) ==
    <<"\n","\n","I","M","P","O","R","T","A","N","T",":"," ","Y","o","u"," ","M","U","S","T"," ",
      "n","a","m","e"," ","t","h","e"," ","g","i","t"," ","b","r","a","n","c","h"," ","e","x","a","c","t","l","y",":"," ">> \o branchName

\* formatSlackMessage(issue)
FormatSlackMessage(issue) ==
    LET projectInfo == IF issue.project # Null
                       THEN <<" ","i","n"," ","p","r","o","j","e","c","t"," ","\"">> \o issue.project \o <<"\"">>
                       ELSE <<>>
        teamInfo == IF issue.team # Null
                    THEN <<" ","[">> \o issue.team \o <<"]">>
                    ELSE <<>>
    IN  <<"<","@">> \o CONFIG.CLAUDE_USER_ID \o <<">">> \o projectInfo \o teamInfo
          \o <<","," ","w","o","r","k"," ","o","n"," ">> \o issue.identifier
          \o <<":"," ">> \o issue.title
          \o DescriptionPart(issue.description)
          \o BranchPart(issue.branchName)

-----------------------------------------------------------------------------
(* markIssueAsDispatched helpers *)

NoState == WfState(0, <<>>, "none")

\* Array.prototype.find over the positions that satisfy the predicate: the
\* element at the first of them, NoState (undefined) when there is none
Find(s, matching) ==
    IF matching = {} THEN NoState
    ELSE s[CHOOSE i \in matching : \A j \in matching : i <= j]

Progress == <<"p","r","o","g","r","e","s","s">>

\* the mutant takes the first started state whatever its name
InProgressStateAnyName(states) ==
    Find(states, { i \in 1..Len(states) : states[i].type = "started" })

\* states.nodes.find(started && name has "progress") || states.nodes.find(started)
InProgressState(states) ==
    LET named == Find(states, { i \in 1..Len(states) :
                                  /\ states[i].type = "started"
                                  /\ Includes(ToLowerCase(states[i].name), Progress) })
    IN  IF named # NoState THEN named
        ELSE Find(states, { i \in 1..Len(states) : states[i].type = "started" })

\* one API call of a run
Call(op, issue, stateId, body, ok) ==
    [ op |-> op, issue |-> issue, stateId |-> stateId, body |-> body, ok |-> ok ]

\* the mutant logs the error and leaves the exit status at 0
FailExitsZero == pc' = "failed" /\ exitCode' = 0

\* the run ends with process.exit(1) from the catch of dispatch()
Fail == pc' = "failed" /\ exitCode' = 1

-----------------------------------------------------------------------------
(* dispatch(): one action per step between suspension points *)

\* the mutant records the missing settings and goes on to the tracker query
ValidateWarnsOnly ==
    /\ pc = "start"
    /\ pc' = "fetch"
    /\ error' = IF Len(Missing) > 0 THEN MissingMessage ELSE error
    /\ UNCHANGED exitCode
    /\ UNCHANGED <<message, prev, workflowEnv, apc>>
    /\ UNCHANGED <<env, issues, teamStates, task, target, calls, posted, runs,
                   nodes, outputs, spc>>

\* validateConfig()
Validate ==
    /\ pc = "start"
    /\ IF Len(Missing) > 0
       THEN Fail /\ error' = MissingMessage
       ELSE pc' = "fetch" /\ UNCHANGED <<exitCode, error>>
    /\ UNCHANGED <<message, prev, workflowEnv, apc>>
    /\ UNCHANGED <<env, issues, teamStates, task, target, calls, posted, runs,
                   nodes, outputs, spc>>

\* the mutant throws when the tracker returns no issue
FetchEmptyThrows ==
    /\ pc = "fetch"
    /\ \E ok \in BOOLEAN :
         /\ calls' = Append(calls, Call("issues", 0, 0, <<>>, ok))
         /\ IF ~ok
            THEN Fail /\ UNCHANGED <<nodes, task>>
            ELSE LET top == Selection(IssuesQuery(IndexFilter, PageSize))
                 IN  /\ nodes' = IssuesQuery(IndexFilter, PageSize)
                     /\ task' = top
                     /\ IF top = NoTask
                        THEN Fail
                        ELSE pc' = "resolve" /\ UNCHANGED exitCode
    /\ UNCHANGED <<message, prev, workflowEnv, apc>>
    /\ UNCHANGED <<env, issues, teamStates, target, posted, runs, error, outputs, spc>>

\* getHighestPriorityTask() up to the choice of topIssue, and dispatch()'s
\* return when it yields null
Fetch ==
    /\ pc = "fetch"
    /\ \E ok \in BOOLEAN :
         /\ calls' = Append(calls, Call("issues", 0, 0, <<>>, ok))
         /\ IF ~ok
            THEN Fail /\ UNCHANGED <<nodes, task>>
            ELSE LET top == Selection(IssuesQuery(IndexFilter, PageSize))
                 IN  /\ nodes' = IssuesQuery(IndexFilter, PageSize)
                     /\ task' = top
                     /\ IF top = NoTask
                        THEN pc' = "done" /\ exitCode' = 0
                        ELSE pc' = "resolve" /\ UNCHANGED exitCode
    /\ UNCHANGED <<message, prev, workflowEnv, apc>>
    /\ UNCHANGED <<env, issues, teamStates, target, posted, runs, error, outputs, spc>>

\* const project = await topIssue.project: a request only when the issue
\* has a project
ResolveProject ==
    /\ pc = "resolve"
    /\ IF task.project = Null
       THEN pc' = "resolve_team" /\ UNCHANGED <<calls, exitCode>>
       ELSE \E ok \in BOOLEAN :
              /\ calls' = Append(calls, Call("issue.project", task.id, 0, <<>>, ok))
              /\ IF ok THEN pc' = "resolve_team" /\ UNCHANGED exitCode ELSE Fail
    /\ UNCHANGED <<message, prev, workflowEnv, apc>>
    /\ UNCHANGED <<env, issues, teamStates, task, target, posted, runs, error,
                   nodes, outputs, spc>>

\* const team = await topIssue.team: a request only when the issue has a team
ResolveTeam ==
    /\ pc = "resolve_team"
    /\ IF task.team = Null
       THEN pc' = "post" /\ UNCHANGED <<calls, exitCode>>
       ELSE \E ok \in BOOLEAN :
              /\ calls' = Append(calls, Call("issue.team", task.id, 0, <<>>, ok))
              /\ IF ok THEN pc' = "post" /\ UNCHANGED exitCode ELSE Fail
    /\ UNCHANGED <<message, prev, workflowEnv, apc>>
    /\ UNCHANGED <<env, issues, teamStates, task, target, posted, runs, error,
                   nodes, outputs, spc>>

\* the mutant goes on to markIssueAsDispatched when the chat post throws
PostIgnoresFailure ==
    /\ pc = "post"
    /\ \E ok \in BOOLEAN :
         /\ calls' = Append(calls, Call("postMessage", task.id, 0, <<>>, ok))
         /\ message' = FormatSlackMessage(task)
         /\ pc' = "mark_issue"
         /\ posted' = IF ok THEN [posted EXCEPT ![task.id] = @ + 1] ELSE posted
         /\ UNCHANGED exitCode
    /\ UNCHANGED <<prev, workflowEnv, apc>>
    /\ UNCHANGED <<env, issues, teamStates, task, target, runs, error, nodes,
                   outputs, spc>>

\* formatSlackMessage(task); postToSlack(message)
Post ==
    /\ pc = "post"
    /\ \E ok \in BOOLEAN :
         /\ calls' = Append(calls, Call("postMessage", task.id, 0, <<>>, ok))
         /\ message' = FormatSlackMessage(task)
         /\ IF ok
            THEN /\ pc' = "mark_issue"
                 /\ posted' = [posted EXCEPT ![task.id] = @ + 1]
                 /\ UNCHANGED exitCode
            ELSE Fail /\ UNCHANGED posted
    /\ UNCHANGED <<prev, workflowEnv, apc>>
    /\ UNCHANGED <<env, issues, teamStates, task, target, runs, error, nodes,
                   outputs, spc>>

\* markIssueAsDispatched: linearClient.issue(issueId)
MarkIssue ==
    /\ pc = "mark_issue"
    /\ \E ok \in BOOLEAN :
         /\ calls' = Append(calls, Call("issue", task.id, 0, <<>>, ok))
         /\ IF ok THEN pc' = "mark_team" /\ UNCHANGED exitCode ELSE Fail
    /\ UNCHANGED <<message, prev, workflowEnv, apc>>
    /\ UNCHANGED <<env, issues, teamStates, task, target, posted, runs, error,
                   nodes, outputs, spc>>

\* markIssueAsDispatched: await issue.team, a request only when the issue
\* has a team; if (team) ...
MarkTeam ==
    /\ pc = "mark_team"
    /\ IF IssueById(task.id).team = Null
       THEN pc' = "comment" /\ UNCHANGED <<calls, exitCode>>
       ELSE \E ok \in BOOLEAN :
              /\ calls' = Append(calls, Call("team", task.id, 0, <<>>, ok))
              /\ IF ok THEN pc' = "mark_states" /\ UNCHANGED exitCode ELSE Fail
    /\ UNCHANGED <<message, prev, workflowEnv, apc>>
    /\ UNCHANGED <<env, issues, teamStates, task, target, posted, runs, error,
                   nodes, outputs, spc>>

\* markIssueAsDispatched: team.states(); find inProgressState; if (inProgressState) ...
MarkStates ==
    /\ pc = "mark_states"
    /\ \E ok \in BOOLEAN :
         /\ calls' = Append(calls, Call("states", task.id, 0, <<>>, ok))
         /\ IF ~ok THEN Fail /\ UNCHANGED target
            ELSE /\ target' = InProgressState(teamStates[IssueById(task.id).team])
                 /\ pc' = IF target' # NoState THEN "update" ELSE "comment"
                 /\ UNCHANGED exitCode
    /\ UNCHANGED <<message, prev, workflowEnv, apc>>
    /\ UNCHANGED <<env, issues, teamStates, task, posted, runs, error, nodes,
                   outputs, spc>>

\* the mutant moves the first issue of the tracker instead of the selected one
UpdateFirstIssue ==
    /\ pc = "update"
    /\ \E ok \in BOOLEAN :
         /\ calls' = Append(calls, Call("updateIssue", task.id, target.id, <<>>, ok))
         /\ IF ok
            THEN /\ issues' = [issues EXCEPT ![1].state = target]
                 /\ pc' = "comment"
                 /\ UNCHANGED exitCode
            ELSE Fail /\ UNCHANGED issues
    /\ UNCHANGED <<message, prev, workflowEnv, apc>>
    /\ UNCHANGED <<env, teamStates, task, target, posted, runs, error, nodes,
                   outputs, spc>>

\* markIssueAsDispatched: linearClient.updateIssue(issueId, { stateId })
Update ==
    /\ pc = "update"
    /\ \E ok \in BOOLEAN :
         /\ calls' = Append(calls, Call("updateIssue", task.id, target.id, <<>>, ok))
         /\ IF ok
            THEN /\ issues' = [issues EXCEPT ![IndexOf(task.id)].state = target]
                 /\ pc' = "comment"
                 /\ UNCHANGED exitCode
            ELSE Fail /\ UNCHANGED issues
    /\ UNCHANGED <<message, prev, workflowEnv, apc>>
    /\ UNCHANGED <<env, teamStates, task, target, posted, runs, error, nodes,
                   outputs, spc>>

\* the mutant leaves the comment on the issue also when the call is rejected
CommentKeptOnFailure ==
    /\ pc = "comment"
    /\ \E ok \in BOOLEAN :
         /\ calls' = Append(calls, Call("createComment", task.id, 0, DispatchBody, ok))
         /\ issues' = [issues EXCEPT ![IndexOf(task.id)].comments =
                                          Append(@, DispatchBody)]
         /\ IF ok THEN pc' = "done" /\ exitCode' = 0 ELSE Fail
    /\ UNCHANGED <<message, prev, workflowEnv, apc>>
    /\ UNCHANGED <<env, teamStates, task, target, posted, runs, error, nodes,
                   outputs, spc>>

\* markIssueAsDispatched: linearClient.createComment({ issueId, body }), and
\* dispatch()'s normal return
Comment ==
    /\ pc = "comment"
    /\ \E ok \in BOOLEAN :
         /\ calls' = Append(calls, Call("createComment", task.id, 0, DispatchBody, ok))
         /\ IF ok
            THEN /\ issues' = [issues EXCEPT ![IndexOf(task.id)].comments =
                                                 Append(@, DispatchBody)]
                 /\ pc' = "done"
                 /\ exitCode' = 0
            ELSE Fail /\ UNCHANGED issues
    /\ UNCHANGED <<message, prev, workflowEnv, apc>>
    /\ UNCHANGED <<env, teamStates, task, target, posted, runs, error, nodes,
                   outputs, spc>>

\* the scheduler starts the next run: a fresh process over the same tracker
NextRun ==
    /\ pc \in {"done", "failed"}
    /\ runs < MaxRuns
    /\ runs' = runs + 1
    /\ pc' = "start"
    /\ task' = NoTask
    /\ target' = NoState
    /\ calls' = <<>>
    /\ exitCode' = -1
    /\ error' = <<>>
    /\ nodes' = <<>>
    /\ message' = <<>>
    /\ prev' = [ task |-> task.id, failed |-> (pc = "failed") ]
    /\ UNCHANGED <<env, issues, teamStates, posted, outputs, spc, workflowEnv, apc>>

-----------------------------------------------------------------------------
(* scripts/fetch-task.js *)

\* fetchHighestPriorityTask()
ScriptFetch ==
    /\ spc = "start"
    /\ pc # "fetch"
    /\ \E ok \in BOOLEAN :
         IF ~ok THEN spc' = "failed" /\ UNCHANGED outputs
         ELSE /\ outputs' = ScriptOutputs(IssuesQuery(ScriptFilter, PageSize))
              /\ spc' = "done"
    /\ UNCHANGED <<message, prev, workflowEnv, apc>>
    /\ UNCHANGED <<env, issues, teamStates, pc, task, target, calls, posted, runs,
                   exitCode, error, nodes>>

\* `<robot emoji> Claude Code Action triggered\n\n[View workflow run](${workflowUrl})`
WorkflowBody(workflowUrl) ==
    <<"[robot]", "Claude", "Code", "Action", "triggered", "\n\n",
      "[View workflow run](">>
      \o (IF workflowUrl = Null THEN <<"undefined">> ELSE workflowUrl) \o <<")">>

\* addComment(): createComment on the issue ISSUE_ID names; the call is
\* rejected when ISSUE_ID names no issue of the tracker
AddComment ==
    /\ apc = "start"
    /\ \E ok \in BOOLEAN :
         IF ok /\ \E k \in 1..Len(issues) : issues[k].id = workflowEnv.ISSUE_ID
         THEN /\ issues' = [issues EXCEPT ![IndexOf(workflowEnv.ISSUE_ID)].comments =
                              Append(@, WorkflowBody(workflowEnv.WORKFLOW_URL))]
              /\ apc' = "done"
         ELSE apc' = "failed" /\ UNCHANGED issues
    /\ UNCHANGED <<env, teamStates, pc, task, target, calls, posted, runs, exitCode,
                   error, nodes, outputs, spc, message, prev, workflowEnv>>

-----------------------------------------------------------------------------
(* Selection alone, on a given tracker response *)

\* index.ts lines 72-80 applied to nodes: null for an empty response, with
\* which dispatch() returns, else the choice of topIssue; the awaits of
\* lines 81-82 follow as ResolveProject and ResolveTeam
SelectIndex ==
    /\ pc = "select"
    /\ task' = Selection(nodes)
    /\ IF Selection(nodes) = NoTask
       THEN pc' = "done" /\ exitCode' = 0
       ELSE pc' = "resolve" /\ UNCHANGED exitCode
    /\ UNCHANGED <<message, prev, workflowEnv, apc>>
    /\ UNCHANGED <<env, issues, teamStates, target, calls, posted, runs,
                   error, nodes, outputs, spc>>

\* fetch-task.js lines 30-47 applied to nodes
SelectScript ==
    /\ pc # "select"
    /\ spc = "start"
    /\ outputs' = ScriptOutputs(nodes)
    /\ spc' = "done"
    /\ UNCHANGED <<message, prev, workflowEnv, apc>>
    /\ UNCHANGED <<env, issues, teamStates, pc, task, target, calls, posted, runs,
                   exitCode, error, nodes>>

-----------------------------------------------------------------------------
(* formatSlackMessage alone, on a given issue *)

\* const message = formatSlackMessage(task)
Format ==
    /\ pc = "format"
    /\ message' = FormatSlackMessage(task)
    /\ pc' = "formatted"
    /\ UNCHANGED <<env, issues, teamStates, task, target, calls, posted, runs,
                   exitCode, error, nodes, outputs, spc, prev, workflowEnv, apc>>

-----------------------------------------------------------------------------
(* Initial states *)

\* a non-empty credential
Key == <<"k">>

\* the environments with the given values for the required keys and the lists
EnvOf(req, projs, teams) ==
    [ k \in EnvKeys |->
        IF k = "LINEAR_PROJECT_IDS" THEN projs
        ELSE IF k = "LINEAR_TEAM_KEYS" THEN teams
        ELSE req[k] ]

AllSet == [ k \in Range(Required) |-> Key ]

\* the trackers of n issues, ids 1..n in tracker order, fields from the sets
Trackers(n, ws, assignedS, typeS, prioS, scopeS) ==
    { t \in [1..n -> UNION { IssueDomain(i, ws, assignedS, typeS, prioS, scopeS)
                               : i \in 1..n }] :
        \A i \in 1..n : t[i].id = i }

\* neither ISSUE_ID nor WORKFLOW_URL is set
NoWorkflowEnv == [ ISSUE_ID |-> 0, WORKFLOW_URL |-> Null ]

\* a process at position p holding task t, nothing called or written yet
StartWith(e, ws, is, p, ns, t, we) ==
    /\ env = e
    /\ teamStates = ws
    /\ issues = is
    /\ pc = p
    /\ task = t
    /\ target = NoState
    /\ calls = <<>>
    /\ posted = [ i \in { is[k].id : k \in 1..Len(is) } |-> 0 ]
    /\ runs = 1
    /\ exitCode = -1
    /\ error = <<>>
    /\ nodes = ns
    /\ outputs = NoOutputs
    /\ spc = "start"
    /\ message = <<>>
    /\ prev = [ task |-> 0, failed |-> FALSE ]
    /\ workflowEnv = we
    /\ apc = "start"

\* what the specifications start from, given environment and tracker
Start(e, ws, is, p, ns) == StartWith(e, ws, is, p, ns, NoTask, NoWorkflowEnv)

\* the dispatcher, run after run, over a tracker nothing else changes
Init ==
    \E req \in { AllSet, [AllSet EXCEPT !["SLACK_USER_TOKEN"] = Null] },
       ws \in WorkflowChoices :
      \E is \in Trackers(NIssues, ws, {FALSE}, {"unstarted", "backlog"},
                         {0, 1, 2},
                         ({Null} \X {Null, TeamE, TeamO}) \cup {<<ProjP, TeamE>>}) :
        Start(EnvOf(req, Null, Null), ws, is, "start", <<>>)

Next ==
    \/ Validate
    \/ Fetch
    \/ ResolveProject
    \/ ResolveTeam
    \/ Post
    \/ MarkIssue
    \/ MarkTeam
    \/ MarkStates
    \/ Update
    \/ Comment
    \/ NextRun

Spec == Init /\ [][Next]_vars

\* validateConfig alone, over every way the required settings can be absent,
\* empty or set
InitConfig ==
    \E req \in [Range(Required) -> {Null, <<>>, Key}] :
        Start(EnvOf(req, Null, Null), CHOOSE ws \in WorkflowChoices : TRUE,
              <<>>, "start", <<>>)

NextConfig == Validate

SpecConfig == InitConfig /\ [][NextConfig]_vars

\* the trackers of up to MaxNodes unassigned, unstarted issues of team E,
\* each with any priority ordinal, unset (0) included
SmallTrackers ==
    UNION { { t \in [1..n -> { MkIssue(i, FALSE, sTodo, p, q, TeamE)
                                 : i \in 1..n, p \in 0..4, q \in {Null, ProjP} }] :
                \A i \in 1..n : t[i].id = i }
            : n \in 0..MaxNodes }

\* the selection of both programs on the response their query, which is the
\* same without allow-lists, has returned from such a tracker
InitSelect ==
    \E is \in SmallTrackers :
        Start(EnvOf(AllSet, Null, Null), CHOOSE ws \in WorkflowChoices : TRUE,
              is, "select", IssuesQuery(IndexFilter, PageSize))

NextSelect == SelectIndex \/ ResolveProject \/ ResolveTeam \/ SelectScript

SpecSelect == InitSelect /\ [][NextSelect]_vars

\* values of an allow-list setting: unset, only separators, one id, two ids
ProjectLists == { Null, <<",">>, <<"q">>, <<"q", ",", "p">> }
TeamLists == { Null, <<>>, <<"O">>, <<"E", ",">> }

\* both programs' query and selection over a tracker: for every allow-list
\* over freely chosen issues, and without allow-lists over a tracker whose
\* first page is full before its last, unassigned and unstarted, issues
InitFetch ==
    LET ws == CHOOSE w \in WorkflowChoices : TRUE
    IN  \/ \E projs \in ProjectLists, teams \in TeamLists :
             \E is \in Trackers(NIssues, ws, BOOLEAN, {"unstarted", "completed"},
                                {0, 1, 2}, { <<Null, Null>>, <<ProjP, TeamE>> }) :
               Start(EnvOf(AllSet, projs, teams), ws, is, "fetch", <<>>)
        \/ \E is \in Trackers(NIssues, ws, {FALSE}, {"unstarted"},
                              {0, 1, 2}, { <<Null, Null>> }) :
             Start(EnvOf(AllSet, Null, Null), ws, Filler(PageSize) \o is, "fetch", <<>>)

NextFetch == Fetch \/ ScriptFetch

SpecFetch == InitFetch /\ [][NextFetch]_vars

\* allow-list settings of the workflow: none, both with an empty entry, only
\* separators, lists that name nothing the tracker holds
WorkflowLists ==
    { <<Null, Null>>, <<<<"q", ",", "p">>, <<"E", ",">>>>, <<<<",">>, <<>>>>,
      <<<<"q">>, <<"O">>>> }

\* the workflow's script next to the dispatcher's query, over the same
\* tracker: ISSUE_ID unset or naming the first issue, WORKFLOW_URL set or not
InitScript ==
    LET ws == CHOOSE w \in WorkflowChoices : TRUE
    IN  \E l \in WorkflowLists, id \in {0, 1}, url \in {Null, <<"w">>} :
          \E is \in Trackers(NIssues, ws, BOOLEAN, {"unstarted"}, {0, 1, 2},
                             { <<Null, Null>>, <<ProjP, TeamE>> }) :
            StartWith(EnvOf(AllSet, l[1], l[2]), ws, is, "fetch", <<>>, NoTask,
                      [ ISSUE_ID |-> id, WORKFLOW_URL |-> url ])

NextScript == Fetch \/ ScriptFetch \/ AddComment

SpecScript == InitScript /\ [][NextScript]_vars

\* a description of n characters, with line breaks and full stops in it
Description(n) ==
    [ i \in 1..n |-> IF i % 3 = 0 THEN "." ELSE IF i % 3 = 1 THEN "a" ELSE "\n" ]

\* the descriptions explored: none, and those of up to MaxOver characters
\* and of up to MaxOver characters less or more than maxDescLength
Descriptions ==
    {Null} \cup { Description(n) : n \in 0..MaxOver }
           \cup { Description(n) : n \in (maxDescLength - MaxOver)..(maxDescLength + MaxOver) }

\* formatSlackMessage on an issue with or without title, project and team
InitFormat ==
    \E d \in Descriptions, t \in {<<>>, <<"t">>}, p \in {Null, ProjP}, k \in {Null, TeamE} :
        StartWith(EnvOf(AllSet, Null, Null), CHOOSE ws \in WorkflowChoices : TRUE,
                  <<>>, "format", <<>>,
                  [ TopIssue(<<MkIssue(1, FALSE, sTodo, 1, p, k)>>)
                      EXCEPT !.description = d, !.title = t ],
                  NoWorkflowEnv)

NextFormat == Format

SpecFormat == InitFormat /\ [][NextFormat]_vars

-----------------------------------------------------------------------------
(* Vocabulary of the claims *)

\* the tracker writes of a run
WriteOps == {"updateIssue", "createComment"}

\* positions of the current run's calls of the given kind
CallsOf(op) == { k \in 1..Len(calls) : calls[k].op = op }

\* the current run's tracker query has returned
FetchDone == Len(calls) >= 1 /\ calls[1].op = "issues" /\ calls[1].ok

\* number of comments of an issue that bear the dispatch marker
MarkerCount(i) ==
    Cardinality({ k \in 1..Len(i.comments) : Includes(i.comments[k], DispatchMarker) })

\* issue i matches the query's fixed clauses: unassigned, open category, priority set
BaseEligible(i) ==
    /\ ~i.assigned
    /\ i.state.type \in {"backlog", "unstarted", "started"}
    /\ i.priority # 0

-----------------------------------------------------------------------------
(* C1 *)

\* C1: in every run a tracker write (updateIssue, createComment) for an issue
\* comes after a successful chat post of the same run for that issue; a run
\* whose chat post failed has aborted without any tracker write; so no issue
\* bears more dispatch-marker comments than it has successful chat posts.
C1_NoWriteWithoutPost ==
    /\ \A k \in 1..Len(calls) :
         calls[k].op \in WriteOps =>
           \E j \in 1..(k-1) : /\ calls[j].op = "postMessage"
                               /\ calls[j].ok
                               /\ calls[j].issue = calls[k].issue
    /\ (\E j \in CallsOf("postMessage") : ~calls[j].ok) =>
         /\ pc = "failed"
         /\ \A k \in 1..Len(calls) : calls[k].op \notin WriteOps
    /\ \A k \in 1..Len(issues) : MarkerCount(issues[k]) <= posted[issues[k].id]

\* C1 witness: the second run's chat post has failed on an issue the first run
\* posted and commented
C1_Witness ==
    /\ runs = 2
    /\ pc = "failed"
    /\ Len(calls) > 0
    /\ calls[Len(calls)].op = "postMessage"
    /\ ~calls[Len(calls)].ok
    /\ MarkerCount(IssueById(task.id)) = 1
    /\ posted[task.id] = 1

-----------------------------------------------------------------------------
(* C2 *)

\* issue i has been acknowledged: it is in a started-category state and bears
\* a dispatch-marker comment
Acknowledged(i) == i.state.type = "started" /\ MarkerCount(i) > 0

\* C2 as stated: a run that selects never selects an issue an earlier run
\* acknowledged (transition and dispatch comment).
C2_NotReselected ==
    (pc = "resolve") => ~Acknowledged(IssueById(task.id))

\* C2 as amended: the acknowledgment does not keep the issue from being
\* selected; once the tracker query of a run has returned, every issue that
\* bears a dispatch-marker comment is the issue this run selected.
C2_Reselected ==
    FetchDone =>
      \A k \in 1..Len(issues) :
        MarkerCount(issues[k]) > 0 => task.id = issues[k].id

\* C2 witness: the second run has selected the issue the first run moved to a
\* started state and commented, although another eligible issue was on offer
C2_Witness ==
    /\ runs = 2
    /\ pc = "resolve"
    /\ Acknowledged(IssueById(task.id))
    /\ \E k \in 1..Len(issues) :
         /\ issues[k].id # task.id
         /\ BaseEligible(issues[k])
         /\ MarkerCount(issues[k]) = 0

-----------------------------------------------------------------------------
(* C3 *)

\* C3: a run that found a task and ended without error made exactly one chat
\* post and exactly one createComment call, the post before the comment, the
\* comment on the selected issue with a body containing the dispatch marker.
C3_OnePostThenOneComment ==
    (pc = "done" /\ task # NoTask) =>
      /\ Cardinality(CallsOf("postMessage")) = 1
      /\ Cardinality(CallsOf("createComment")) = 1
      /\ \A j \in CallsOf("postMessage"), k \in CallsOf("createComment") :
           /\ j < k
           /\ calls[j].issue = task.id
           /\ calls[k].issue = task.id
           /\ Includes(calls[k].body, DispatchMarker)
      /\ Includes(IssueById(task.id).comments[Len(IssueById(task.id).comments)],
                  DispatchMarker)

\* C3 witness: a run has ended without error after posting, moving the issue
\* and commenting
C3_Witness ==
    /\ pc = "done"
    /\ task # NoTask
    /\ CallsOf("updateIssue") # {}
    /\ CallsOf("createComment") # {}

-----------------------------------------------------------------------------
(* C4 *)

\* the calls of step 2a: the lookups of the issue, its team and the team's
\* states, and the state update
TransitionOps == {"issue", "team", "states", "updateIssue"}

\* C4 as stated: a run whose chat post succeeded and whose state transition
\* step failed has still called createComment for the issue.
C4_CommentDespiteTransitionFailure ==
    (/\ pc = "failed"
     /\ \E j \in CallsOf("postMessage") : calls[j].ok
     /\ \E k \in 1..Len(calls) : calls[k].op \in TransitionOps /\ ~calls[k].ok)
    => \E c \in CallsOf("createComment") : calls[c].issue = task.id

-----------------------------------------------------------------------------
(* C5 *)

\* C5: a run whose tracker query returned an empty batch has no task, has
\* made no call but the query (no chat post, no updateIssue, no
\* createComment) and has ended with exit status 0.
C5_EmptyBatchIsQuietSuccess ==
    (FetchDone /\ nodes = <<>>) =>
      /\ task = NoTask
      /\ Len(calls) = 1
      /\ pc = "done"
      /\ exitCode = 0

\* C5 witness: the query returned nothing although the tracker holds an issue
\* that only lacks a priority, and the run has ended
C5_Witness ==
    /\ FetchDone
    /\ nodes = <<>>
    /\ pc = "done"
    /\ \E k \in 1..Len(issues) :
         /\ ~issues[k].assigned
         /\ issues[k].state.type = "unstarted"
         /\ issues[k].priority = 0

-----------------------------------------------------------------------------
(* C6 *)

\* the ids an allow-list setting names: its non-empty pieces between commas
TokensOf(v) ==
    IF v = Null THEN {}
    ELSE { SubSeq(v, i, j) : <<i, j>> \in
             { <<i, j>> \in (1..Len(v)) \X (1..Len(v)) :
                 /\ i <= j
                 /\ \A k \in i..j : v[k] # ","
                 /\ (i = 1 \/ v[i-1] = ",")
                 /\ (j = Len(v) \/ v[j+1] = ",") } }

\* issue i is eligible: the fixed clauses, and each allow-list that names
\* anything names the issue's project, respectively team
Eligible(i) ==
    /\ BaseEligible(i)
    /\ (TokensOf(env["LINEAR_PROJECT_IDS"]) # {} =>
          i.project \in TokensOf(env["LINEAR_PROJECT_IDS"]))
    /\ (TokensOf(env["LINEAR_TEAM_KEYS"]) # {} =>
          i.team \in TokensOf(env["LINEAR_TEAM_KEYS"]))

\* C6 as stated: no eligible issue of the tracker is strictly more urgent
\* than the issue the run selected, however many eligible issues there are.
C6_SelectsTrackerWideHighest ==
    (FetchDone /\ task # NoTask) =>
      \A k \in 1..Len(issues) :
        Eligible(issues[k]) => issues[k].priority >= task.priority

-----------------------------------------------------------------------------
(* C7 *)

\* C7: on a non-empty response whose issues all have a priority in 1..4, the
\* issue either program selects is one of the response with the least ordinal.
C7_SelectsMinimumOrdinal ==
    (Len(nodes) > 0 /\ \A k \in 1..Len(nodes) : nodes[k].priority \in 1..4) =>
      /\ pc = "post" =>
           /\ \E k \in 1..Len(nodes) :
                nodes[k].id = task.id /\ nodes[k].priority = task.priority
           /\ \A k \in 1..Len(nodes) : task.priority <= nodes[k].priority
      /\ spc = "done" =>
           \E k \in 1..Len(nodes) :
             /\ nodes[k].id = outputs.task_id
             /\ \A j \in 1..Len(nodes) : nodes[k].priority <= nodes[j].priority

\* C7 witness: from the priorities 3, 1, 2 both programs have taken the
\* second issue
C7_Witness ==
    /\ pc = "post"
    /\ spc = "done"
    /\ Len(nodes) = 3
    /\ nodes[1].priority = 3 /\ nodes[2].priority = 1 /\ nodes[3].priority = 2
    /\ task.id = nodes[2].id
    /\ outputs.task_id = nodes[2].id

-----------------------------------------------------------------------------
(* C8 *)

\* C8: an issue with priority 0 (unset) is never selected ahead of an issue
\* with priority 1..4: the fetched batch holds no unset issue, so whatever
\* either program selects has a priority in 1..4, and an unset issue that
\* comes first in the tracker does not keep a prioritised issue from being
\* selected; an unset issue is selected from no batch.
C8_UnsetNeverSelectedAhead ==
    /\ \A k \in 1..Len(nodes) : nodes[k].priority # 0
    /\ (pc # "select") =>
         /\ task # NoTask => task.priority \in 1..4
         /\ (\E k \in 1..Len(issues) : issues[k].priority \in 1..4) =>
              /\ task # NoTask
              /\ IssueById(task.id).priority \in 1..4
    /\ (spc = "done") =>
         /\ outputs.has_task = "true" =>
              IssueById(outputs.task_id).priority \in 1..4
         /\ (\E k \in 1..Len(issues) : issues[k].priority \in 1..4) =>
              outputs.has_task = "true"

\* C8 witness: the tracker returns an unset issue before issues of priority
\* 2 and 1; both programs have taken the third issue
C8_Witness ==
    /\ pc = "post"
    /\ spc = "done"
    /\ Len(issues) = 3
    /\ issues[1].priority = 0 /\ issues[2].priority = 2 /\ issues[3].priority = 1
    /\ Len(nodes) = 2
    /\ task.id = issues[3].id
    /\ outputs.task_id = issues[3].id

-----------------------------------------------------------------------------
(* C9 *)

\* C9: once the query has returned, the selected issue is eligible at that
\* time (unassigned, category backlog, unstarted or started, priority set,
\* project and team named by the allow-lists that name anything), and nothing
\* is selected only when the tracker holds no eligible issue: an allow-list
\* that is unset or names nothing excludes no issue.
C9_SelectedIsEligible ==
    FetchDone =>
      /\ task # NoTask => Eligible(IssueById(task.id))
      /\ task = NoTask => \A k \in 1..Len(issues) : ~Eligible(issues[k])

\* C9 witness: with both allow-lists naming something, the run has passed
\* over a first issue that has no project and selected the second
C9_Witness ==
    /\ FetchDone
    /\ env["LINEAR_PROJECT_IDS"] = <<"q", ",", "p">>
    /\ env["LINEAR_TEAM_KEYS"] = <<"E", ",">>
    /\ Len(issues) = NIssues
    /\ BaseEligible(issues[1])
    /\ issues[1].project = Null
    /\ task.id = issues[2].id

-----------------------------------------------------------------------------
(* C10 *)

\* the required settings that are unset or empty
Unset == { k \in Range(Required) : env[k] = Null \/ env[k] = <<>> }

\* C10: validateConfig throws exactly when a required setting is unset or
\* empty, and the required keys its message names are exactly those.
C10_MissingKeysReported ==
    (pc # "start") =>
      /\ (pc = "failed") <=> (Unset # {})
      /\ (pc = "failed") => (Range(error) \cap Range(Required) = Unset)
      /\ (pc # "failed") => (error = <<>>)

\* C10 witness: validateConfig has thrown with one key unset, another empty
\* and the other two set
C10_Witness ==
    /\ pc = "failed"
    /\ env["LINEAR_API_KEY"] = Null
    /\ env["SLACK_CHANNEL_ID"] = <<>>
    /\ env["SLACK_USER_TOKEN"] = Key
    /\ env["CLAUDE_USER_ID"] = Key
    /\ Unset = {"LINEAR_API_KEY", "SLACK_CHANNEL_ID"}

\* C11: a run whose required settings are not all present makes no network
\* call at all (no tracker query, no chat post, no issue update, no comment),
\* changes nothing in the tracker, and once validateConfig has run it has
\* ended as failed with exit status 1.
C11_MissingConfigAbortsBeforeNetwork ==
    Unset # {} =>
        /\ calls = <<>>
        /\ pc \in {"start", "failed"}
        /\ pc = "failed" => exitCode = 1
        /\ task = NoTask /\ message = <<>>
        /\ \A k \in 1..Len(issues) :
             /\ issues[k].comments = <<>>
             /\ posted[issues[k].id] = 0
             /\ issues[k].state.type # "started"

\* a second run has failed on the missing setting while the tracker holds an
\* issue the query would have returned
C11_Witness ==
    /\ Unset # {}
    /\ runs = 2
    /\ pc = "failed"
    /\ exitCode = 1
    /\ \E k \in 1..Len(issues) : BaseEligible(issues[k])

-----------------------------------------------------------------------------
(* C12 *)

\* some step the current run has taken raised an error
Raised ==
    \/ pc # "start" /\ Unset # {}
    \/ \E k \in 1..Len(calls) : ~calls[k].ok

\* C12: a run ends with exit status 0 exactly when none of its steps raised
\* an error (it dispatched a task, or the query returned nothing to dispatch),
\* and with exit status 1 exactly when a step raised; the error ends the run
\* at the step that raised it.
C12_ExitStatusTellsFailure ==
    /\ exitCode \in {-1, 0, 1}
    /\ (exitCode = 0) <=> (pc = "done")
    /\ (exitCode = 1) <=> (pc = "failed")
    /\ (pc = "failed") <=> Raised
    /\ (pc = "done") =>
         \/ task = NoTask /\ Len(calls) = 1
         \/ /\ task # NoTask
            /\ calls[Len(calls)].op = "createComment"
            /\ posted[task.id] >= 1
    /\ (pc = "failed" /\ calls # <<>>) =>
         \A k \in 1..Len(calls) : calls[k].ok <=> (k < Len(calls))

\* the second run has failed at a step after its chat post, the first run
\* having dispatched a task and ended with status 0
C12_Witness ==
    /\ runs = 2
    /\ prev.task # 0 /\ ~prev.failed
    /\ pc = "failed" /\ exitCode = 1
    /\ CallsOf("postMessage") # {}
    /\ ~calls[Len(calls)].ok

-----------------------------------------------------------------------------
(* C13 *)

\* C13: a run that fails at a step after it selected an issue (chat post,
\* issue, team or states lookup, state update, comment creation) has written
\* no dispatch comment on that issue, and the issue still matches the query;
\* the next run, once its query has returned, has selected the same issue
\* and goes on to dispatch it.
C13_FailedDispatchIsRetried ==
    /\ (pc = "failed" /\ task # NoTask) =>
         /\ \A k \in CallsOf("createComment") : ~calls[k].ok
         /\ MarkerCount(IssueById(task.id)) < runs
         /\ MarkerCount(IssueById(task.id))
              + Cardinality({ k \in CallsOf("postMessage") : calls[k].ok })
                <= posted[task.id]
         /\ Eligible(IssueById(task.id))
    /\ (prev.failed /\ prev.task # 0 /\ FetchDone) =>
         /\ task.id = prev.task
         /\ pc = "done" => CallsOf("postMessage") # {}

\* the first run failed after it had moved the issue to a started state; the
\* second run has selected the issue again and is about to post
C13_Witness ==
    /\ runs = 2
    /\ prev.failed /\ prev.task # 0
    /\ task.id = prev.task
    /\ IssueById(task.id).state.type = "started"
    /\ MarkerCount(IssueById(task.id)) = 0
    /\ pc = "post"

-----------------------------------------------------------------------------
(* C14 *)

\* the message formatSlackMessage gives for the task without its description
Bare == FormatSlackMessage([task EXCEPT !.description = Null])

\* what the message holds between the title and the branch instruction
Rendered ==
    SubSeq(message, Len(Bare) - Len(BranchPart(task.branchName)) + 1,
                    Len(message) - Len(BranchPart(task.branchName)))

\* C14: the message is the message without description with, between title
\* and branch instruction, nothing when the description is absent or empty,
\* and otherwise a blank line followed by the description itself when it has
\* at most maxDescLength characters, or by exactly its first maxDescLength
\* characters and "..." when it has more.
C14_DescriptionTruncation ==
    (pc = "formatted") =>
      LET d == task.description
          tailLen == Len(BranchPart(task.branchName))
          headLen == Len(Bare) - tailLen
      IN  /\ SubSeq(message, 1, headLen) = SubSeq(Bare, 1, headLen)
          /\ SubSeq(message, Len(message) - tailLen + 1, Len(message))
                = BranchPart(task.branchName)
          /\ (d = Null \/ d = <<>>) => message = Bare
          /\ (d # Null /\ d # <<>>) =>
               /\ SubSeq(Rendered, 1, 2) = <<"\n", "\n">>
               /\ Len(d) <= maxDescLength =>
                    SubSeq(Rendered, 3, Len(Rendered)) = d
               /\ Len(d) > maxDescLength =>
                    /\ Len(Rendered) = 2 + maxDescLength + 3
                    /\ \A i \in 1..maxDescLength : Rendered[2 + i] = d[i]
                    /\ \A i \in 1..3 : Rendered[2 + maxDescLength + i] = "."

\* a description of exactly maxDescLength characters was passed through,
\* for an issue with project and team
C14_Witness ==
    /\ pc = "formatted"
    /\ Len(task.description) = maxDescLength
    /\ task.project # Null /\ task.team # Null
    /\ Len(message) = Len(Bare) + 2 + maxDescLength

-----------------------------------------------------------------------------
(* C15 *)

\* the started-category states of a team, and those named "...progress..."
StartedOf(t) == { st \in Range(teamStates[t]) : st.type = "started" }
ProgressOf(t) == { st \in StartedOf(t) : Includes(ToLowerCase(st.name), Progress) }

\* the selected issue has a team with a started-category state
CanMove ==
    /\ IssueById(task.id).team # Null
    /\ StartedOf(IssueById(task.id).team) # {}

\* C15: every updateIssue call of a run names a started-category state of
\* the team of the issue it is made for, one named "...progress..." if the
\* team has such a started-category state; a run whose issue has no team, or
\* a team without started-category state, makes no updateIssue call and goes
\* from the lookups straight to the creation of the dispatch comment.
C15_TargetIsStartedStateOfTeam ==
    /\ \A k \in CallsOf("updateIssue") :
         LET t == IssueById(calls[k].issue).team
         IN  /\ t # Null
             /\ \E st \in StartedOf(t) :
                  /\ st.id = calls[k].stateId
                  /\ ProgressOf(t) # {} => st \in ProgressOf(t)
    /\ (pc = "update") => CanMove
    /\ (task # NoTask /\ ~CanMove) =>
         /\ CallsOf("updateIssue") = {}
         /\ calls[Len(calls)].op # "updateIssue"
         /\ IssueById(task.id).team = Null =>
              /\ pc # "mark_states"
              /\ CallsOf("team") \cup CallsOf("states") = {}
         /\ (calls[Len(calls)].ok /\ calls[Len(calls)].op = "states")
              => pc = "comment"
         /\ pc = "done" => calls[Len(calls)].op = "createComment"
    /\ (task # NoTask /\ CanMove /\ calls[Len(calls)].op = "states"
          /\ calls[Len(calls)].ok) => pc = "update"

\* a run has moved its issue to the team's "In Progress" state, which comes
\* after another started-category state in the team's workflow, and created
\* the comment
C15_Witness ==
    /\ pc = "done"
    /\ \E k \in CallsOf("updateIssue") :
         /\ calls[k].ok
         /\ calls[k].stateId = sInProgress.id
         /\ IssueById(calls[k].issue).state = sInProgress
         /\ sDoing \in StartedOf(IssueById(calls[k].issue).team)
    /\ CallsOf("createComment") # {}

-----------------------------------------------------------------------------
(* C16 *)

\* what a run leaves alone in the tracker: every issue but the selected one,
\* and of the selected one everything but its state and its comments
FrameOfRun ==
    /\ Len(issues') = Len(issues)
    /\ \A k \in 1..Len(issues) :
         \/ issues'[k] = issues[k]
         \/ /\ issues[k].id = task.id
            /\ issues'[k] = [issues[k] EXCEPT !.state = issues'[k].state,
                                              !.comments = issues'[k].comments]

\* within a run the selected issue, once chosen, stays the selected issue
OneSelection == (runs' = runs /\ task # NoTask) => task' = task

\* C16: a run selects at most one issue and posts at most one chat message,
\* each of its tracker writes (updateIssue, createComment) is made for the
\* issue it selected, and no step changes any field of another issue, nor
\* any field other than state and comments of the selected one.
C16_OnlySelectedIssueWritten ==
    /\ [](/\ Cardinality(CallsOf("postMessage")) <= 1
          /\ \A k \in CallsOf("postMessage") \cup CallsOf("updateIssue")
                        \cup CallsOf("createComment") :
               task # NoTask /\ calls[k].issue = task.id
          /\ Cardinality({ i \in DOMAIN posted : posted[i] > 0 }) <= runs)
    /\ [][FrameOfRun /\ OneSelection]_vars

\* a run has moved and commented the second issue of the tracker, which it
\* selected, while the first, also returned by the query, is as it was
C16_Witness ==
    /\ runs = 1
    /\ pc = "done"
    /\ task.id = issues[2].id
    /\ issues[2].state.type = "started"
    /\ MarkerCount(issues[2]) = 1
    /\ BaseEligible(issues[1])
    /\ issues[1].state.type # "started"
    /\ issues[1].comments = <<>>

-----------------------------------------------------------------------------
(* C17 *)

\* the position in the response of the first issue no other issue of the
\* response has a smaller ordinal than
FirstOfLeast ==
    CHOOSE k \in 1..Len(nodes) :
      /\ \A j \in 1..Len(nodes) : nodes[k].priority <= nodes[j].priority
      /\ \A j \in 1..(k - 1) : nodes[j].priority > nodes[k].priority

\* C17: of the issues of a non-empty response that share the least priority
\* ordinal, either program selects the one the tracker returned first.
C17_TieGoesToEarliest ==
    Len(nodes) > 0 =>
      /\ pc = "post" => task.id = nodes[FirstOfLeast].id
      /\ spc = "done" => /\ outputs.has_task = "true"
                         /\ outputs.task_id = nodes[FirstOfLeast].id

\* from the priorities 2, 1, 1 both programs have taken the second issue,
\* not the third
C17_Witness ==
    /\ pc = "post"
    /\ spc = "done"
    /\ Len(nodes) = 3
    /\ nodes[1].priority = 2 /\ nodes[2].priority = 1 /\ nodes[3].priority = 1
    /\ task.id = nodes[2].id
    /\ outputs.task_id = nodes[2].id

-----------------------------------------------------------------------------
(* C18 *)

\* C18: index.ts and fetch-task.js build the same filter from the same
\* environment, and once both have queried the same tracker, fetch-task.js
\* has written has_task=true exactly when getHighestPriorityTask has a task,
\* and then the task_id it has written is the id of that task.
C18_ScriptAgreesWithDispatcher ==
    /\ IndexFilter = ScriptFilter
    /\ (FetchDone /\ spc = "done") =>
         /\ outputs.has_task \in {"true", "false"}
         /\ (outputs.has_task = "true") <=> (task # NoTask)
         /\ outputs.task_id = task.id

\* both programs have taken the same issue under a team allow-list that
\* keeps another unassigned, prioritised, open issue out of the response,
\* and the issue bears the comment of addComment
C18_Witness ==
    /\ FetchDone
    /\ spc = "done"
    /\ env["LINEAR_TEAM_KEYS"] # Null
    /\ IndexFilter.teamKeyIn # Null
    /\ task # NoTask
    /\ outputs = [ has_task |-> "true", task_id |-> task.id ]
    /\ \E k \in 1..Len(issues) : BaseEligible(issues[k]) /\ ~Eligible(issues[k])
    /\ apc = "done"
    /\ IssueById(task.id).comments = <<WorkflowBody(workflowEnv.WORKFLOW_URL)>>

====
